---------------------------- MODULE Spec2Model ----------------------------
(***************************************************************************)
(* flib: locating relocatable MIPS objects inside a binary image.          *)
(*                                                                         *)
(* The module models src/src/main.rs (stencils, the two-phase matcher and  *)
(* the coordinator `run`) and src/src/symbols.rs (symbol recovery).        *)
(*                                                                         *)
(* A u32 is the pair <<hi, lo>> of its two 16-bit halves, so that the      *)
(* arithmetic keeps its 32-bit width: every operation below works on the   *)
(* halves and reports the carry or borrow out of bit 31.                   *)
(***************************************************************************)
EXTENDS Integers, Sequences, FiniteSets, TLC

---------------------------------------------------------------------------
(* 32-bit words                                                            *)

HALF == \h10000

W(hi, lo) == <<hi, lo>>

RECURSIVE AndBits(_, _)
AndBits(a, b) ==
    IF a = 0 \/ b = 0 THEN 0
    ELSE (a % 2) * (b % 2) + 2 * AndBits(a \div 2, b \div 2)

\* the bitwise and of two bytes, tabulated
And8 == [a \in 0..255 |-> [b \in 0..255 |-> AndBits(a, b)]]

And16(a, b) ==
    And8[a \div 256][b \div 256] * 256 + And8[a % 256][b % 256]

\* a & b
BitAnd(a, b) == <<And16(a[1], b[1]), And16(a[2], b[2])>>

\* !a
BitNot(a) == <<HALF - 1 - a[1], HALF - 1 - a[2]>>

\* a << n for 0 <= n <= 16; the bits shifted out of bit 31 are dropped
\* (Rust's << faults only on a shift amount >= 32)
Pow2(n) == CASE n = 0 -> 1 [] n = 1 -> 2 [] n = 2 -> 4 [] n = 16 -> HALF

Shl(a, n) ==
    IF n = 16 THEN <<a[2], 0>>
    ELSE <<(a[1] * Pow2(n) + (a[2] * Pow2(n)) \div HALF) % HALF,
           (a[2] * Pow2(n)) % HALF>>

\* a + b on u32: the wrapped value, and whether the sum left 32 bits
Add32(a, b) ==
    LET lo == a[2] + b[2]
        hi == a[1] + b[1] + lo \div HALF
    IN  [val |-> <<hi % HALF, lo % HALF>>, ovf |-> hi >= HALF]

\* a - b on u32: the wrapped value, and whether it borrowed below zero
Sub32(a, b) ==
    LET lo == a[2] - b[2]
        bw == IF lo < 0 THEN 1 ELSE 0
        hi == a[1] - b[1] - bw
    IN  [val |-> <<(hi + HALF) % HALF, (lo + HALF) % HALF>>, ovf |-> hi < 0]

\* a < b on u32
Less32(a, b) == a[1] < b[1] \/ (a[1] = b[1] /\ a[2] < b[2])

\* a usize that fits a u32, as a u32
U32(n) == <<n \div HALF, n % HALF>>

ZERO == W(0, 0)

---------------------------------------------------------------------------
(* main.rs: the masks                                                      *)

FULL_MASK   == W(\hFFFF, \hFFFF)
ROUGH_MASK  == W(\hFC00, \h0000)
J_TYPE_MASK == W(\hFC00, \h0000)
I_TYPE_MASK == W(\hFFFF, \h0000)

\* symbols.rs
HIGH_BITS == W(\h8000, \h0000)

---------------------------------------------------------------------------
(* main.rs: words_from_bytes                                               *)

\* u32::from_be_bytes / u32::from_le_bytes on one chunk of four bytes
word_from_bytes(endian, b) ==
    IF endian = "Big"
    THEN <<b[1] * 256 + b[2], b[3] * 256 + b[4]>>
    ELSE <<b[4] * 256 + b[3], b[2] * 256 + b[1]>>

\* input.chunks_exact(4): a trailing partial chunk is left out
words_from_bytes(endian, input) ==
    [k \in 1..(Len(input) \div 4) |->
        word_from_bytes(endian, SubSeq(input, 4 * k - 3, 4 * k))]

make_rough_stencil(endian, input) ==
    LET output == words_from_bytes(endian, input)
    IN  [k \in 1..Len(output) |-> BitAnd(output[k], ROUGH_MASK)]

---------------------------------------------------------------------------
(* main.rs: make_precise_stencil                                           *)

R_MIPS_26   == "R_MIPS_26"
R_MIPS_HI16 == "R_MIPS_HI16"
R_MIPS_LO16 == "R_MIPS_LO16"
R_MIPS_GOT16 == "R_MIPS_GOT16"

\* the three assignments of one match arm, on entry `index` (0-based)
MaskEntry(output, index, mask) ==
    [output EXCEPT ![index + 1] =
        [word   |-> BitAnd(@.word, mask),
         addend |-> BitAnd(@.addend, BitNot(mask)),
         mask   |-> BitAnd(@.mask, mask)]]

\* the body of `for reloc in section.relocations()`, from relocation n on;
\* fault is the unimplemented!() of the last arm
RECURSIVE ApplyRelocations(_, _, _)
ApplyRelocations(output, relocs, n) ==
    IF n > Len(relocs) THEN [fault |-> FALSE, output |-> output]
    ELSE LET reloc == relocs[n]
             index == reloc.offset \div 4
         IN  CASE reloc.kind = R_MIPS_26 ->
                    ApplyRelocations(MaskEntry(output, index, J_TYPE_MASK), relocs, n + 1)
               [] reloc.kind \in {R_MIPS_LO16, R_MIPS_HI16} ->
                    ApplyRelocations(MaskEntry(output, index, I_TYPE_MASK), relocs, n + 1)
               [] OTHER -> [fault |-> TRUE, output |-> output]

make_precise_stencil(endian, obj_file, input) ==
    LET words  == words_from_bytes(endian, input)
        output == [k \in 1..Len(words) |->
                     [word |-> words[k], addend |-> words[k], mask |-> FULL_MASK]]
    IN  IF obj_file.has_text
        THEN ApplyRelocations(output, obj_file.relocs, 1)
        ELSE [fault |-> FALSE, output |-> output]

---------------------------------------------------------------------------
(* main.rs: naive_wordsearch, precise_check                                *)

\* the inner `for (j, word) in pattern.iter().enumerate()` from j on (0-based):
\* "match", "miss" (the break), or "oob" when v[i + j] is outside v
RECURSIVE WindowFrom(_, _, _, _)
WindowFrom(v, pattern, i, j) ==
    IF j >= Len(pattern) THEN "match"
    ELSE IF i + j >= Len(v) THEN "oob"
    ELSE IF BitAnd(v[i + j + 1], ROUGH_MASK) # pattern[j + 1] THEN "miss"
    ELSE WindowFrom(v, pattern, i, j + 1)

\* the `while i <= limit` loop from i on; fault: v[i + j] was outside v
RECURSIVE SearchFrom(_, _, _, _, _)
SearchFrom(v, pattern, limit, i, results) ==
    IF i > limit THEN [fault |-> FALSE, results |-> results]
    ELSE LET w == WindowFrom(v, pattern, i, 0)
         IN  IF w = "oob" THEN [fault |-> TRUE, results |-> results]
             ELSE SearchFrom(v, pattern, limit, i + 1,
                             IF w = "match" THEN Append(results, i * 4) ELSE results)

\* naive_wordsearch with `results.push(i)`: word indices, not byte offsets
naive_wordsearch_indices(v, pattern) ==
    LET ovf   == Len(pattern) > Len(v)
        limit == IF ovf THEN Len(v) + 1 ELSE Len(v) - Len(pattern)
        scan  == SearchFrom(v, pattern, limit, 0, <<>>)
    IN  [ovf |-> ovf, fault |-> scan.fault,
         results |-> [k \in 1..Len(scan.results) |-> scan.results[k] \div 4]]

\* naive_wordsearch with `while i < v.len() - pattern.len()`: the last
\* position of v is never tried
naive_wordsearch_exclusive(v, pattern) ==
    LET ovf   == Len(pattern) > Len(v)
        limit == IF ovf THEN Len(v) + 1 ELSE Len(v) - Len(pattern) - 1
        scan  == SearchFrom(v, pattern, limit, 0, <<>>)
    IN  [ovf |-> ovf, fault |-> scan.fault, results |-> scan.results]

\* `v.len() - pattern.len()` is a usize subtraction.  ovf: the pattern is
\* longer than v and the subtraction left its range; the rest is then the
\* scan with the wrapped limit, which lies beyond every index of v
naive_wordsearch(v, pattern) ==
    LET ovf   == Len(pattern) > Len(v)
        limit == IF ovf THEN Len(v) + 1 ELSE Len(v) - Len(pattern)
        scan  == SearchFrom(v, pattern, limit, 0, <<>>)
    IN  [ovf |-> ovf, fault |-> scan.fault, results |-> scan.results]

\* precise_check with `v[i] != instr.word`: the mask is not applied
precise_check_unmasked(v, stencil) ==
    \A i \in 1..Len(stencil) : v[i] = stencil[i].word

\* precise_check with `v[i] & ROUGH_MASK != instr.word & ROUGH_MASK`
precise_check_opcode(v, stencil) ==
    \A i \in 1..Len(stencil) :
        BitAnd(v[i], ROUGH_MASK) = BitAnd(stencil[i].word, ROUGH_MASK)

\* v is the window rom_words[index .. index + stencil.len()]
precise_check(v, stencil) ==
    \A i \in 1..Len(stencil) : BitAnd(v[i], stencil[i].mask) = stencil[i].word

---------------------------------------------------------------------------
(* symbols.rs: Symbol, parse_relocated, parse_symtab_functions             *)

Symbol(name, address, size, filename, defined, complete) ==
    [name |-> name, address |-> address, size |-> size,
     filename |-> filename, defined |-> defined, complete |-> complete]

\* `match reloc.target()`: the name, size and defined of the symbol to emit
TargetInfo(reloc) ==
    CASE reloc.target.type = "Symbol" ->
            [name |-> reloc.target.name, size |-> reloc.target.size,
             defined |-> reloc.target.is_definition]
      [] reloc.target.type = "Section" ->
            [name |-> reloc.target.name, size |-> reloc.target.size, defined |-> TRUE]
      [] OTHER -> [name |-> "Unknown", size |-> 0, defined |-> FALSE]

\* the unconditional j: 0b000010 << 26
J_OPCODE == W(\h0800, \h0000)

\* the R_MIPS_26 arm without `address -= stencil[index].addend`
RelocJ26_keep_addend(acc, t, filename, stencil, rom_words, index) ==
    IF BitAnd(rom_words[index + 1], J_TYPE_MASK) # J_OPCODE
    THEN LET sum == Add32(HIGH_BITS,
                          Shl(BitAnd(rom_words[index + 1], BitNot(J_TYPE_MASK)), 2))
         IN  [acc EXCEPT
                !.ovf = @ \/ sum.ovf,
                !.symbols = Append(@, Symbol(t.name, sum.val, t.size, filename,
                                             t.defined, TRUE))]
    ELSE acc

\* the R_MIPS_26 arm; acc is [fault, ovf, symbols]
RelocJ26(acc, t, filename, stencil, rom_words, index) ==
    IF BitAnd(rom_words[index + 1], J_TYPE_MASK) # J_OPCODE
    THEN LET sum  == Add32(HIGH_BITS,
                           Shl(BitAnd(rom_words[index + 1], BitNot(J_TYPE_MASK)), 2))
             diff == Sub32(sum.val, stencil[index + 1].addend)
         IN  [acc EXCEPT
                !.ovf = @ \/ sum.ovf \/ diff.ovf,
                !.symbols = Append(@, Symbol(t.name, diff.val, t.size, filename,
                                             t.defined, TRUE))]
    ELSE acc

\* the R_MIPS_HI16 arm
RelocHI16(acc, t, filename, stencil, rom_words, index) ==
    LET address == Shl(BitAnd(rom_words[index + 1], BitNot(I_TYPE_MASK)), 16)
        diff    == Sub32(address, Shl(stencil[index + 1].addend, 16))
    IN  [acc EXCEPT
           !.ovf = @ \/ diff.ovf,
           !.symbols = Append(@, Symbol(t.name, diff.val, t.size, filename,
                                        t.defined, FALSE))]

\* the R_MIPS_LO16 arm without `if !last_symbol.complete`
RelocLO16_any(acc, reloc, stencil, rom_words, index) ==
    LET address == BitAnd(rom_words[index + 1], BitNot(I_TYPE_MASK))
        n       == Len(acc.symbols)
    IN  IF n > 0
        THEN LET a1 == Add32(acc.symbols[n].address, address)
                 a2 == Sub32(a1.val, Shl(BitAnd(address, W(0, \h8000)), 1))
                 a3 == Sub32(a2.val, U32(reloc.addend))
                 a4 == Sub32(a3.val, stencil[index + 1].addend)
             IN  [acc EXCEPT
                    !.ovf = @ \/ a1.ovf \/ a2.ovf \/ a3.ovf \/ a4.ovf,
                    !.symbols[n].address = a4.val,
                    !.symbols[n].complete = TRUE]
        ELSE acc

\* the R_MIPS_LO16 arm: only symbols.last_mut() can change
RelocLO16(acc, reloc, stencil, rom_words, index) ==
    LET address == BitAnd(rom_words[index + 1], BitNot(I_TYPE_MASK))
        n       == Len(acc.symbols)
    IN  IF n > 0 /\ ~acc.symbols[n].complete
        THEN LET a1 == Add32(acc.symbols[n].address, address)
                 a2 == Sub32(a1.val, Shl(BitAnd(address, W(0, \h8000)), 1))
                 a3 == Sub32(a2.val, U32(reloc.addend))
                 a4 == Sub32(a3.val, stencil[index + 1].addend)
             IN  [acc EXCEPT
                    !.ovf = @ \/ a1.ovf \/ a2.ovf \/ a3.ovf \/ a4.ovf,
                    !.symbols[n].address = a4.val,
                    !.symbols[n].complete = TRUE]
        ELSE acc

\* `for (offset, reloc) in section.relocations()` from relocation n on
RECURSIVE RelocatedFrom(_, _, _, _, _, _)
RelocatedFrom(acc, relocs, filename, stencil, rom_words, n) ==
    IF n > Len(relocs) \/ acc.fault THEN acc
    ELSE LET reloc == relocs[n]
             index == reloc.offset \div 4
             t     == TargetInfo(reloc)
             next  == CASE reloc.kind = R_MIPS_26 ->
                             RelocJ26(acc, t, filename, stencil, rom_words, index)
                        [] reloc.kind = R_MIPS_HI16 ->
                             RelocHI16(acc, t, filename, stencil, rom_words, index)
                        [] reloc.kind = R_MIPS_LO16 ->
                             RelocLO16(acc, reloc, stencil, rom_words, index)
                        [] OTHER -> [acc EXCEPT !.fault = TRUE]
         IN  RelocatedFrom(next, relocs, filename, stencil, rom_words, n + 1)

\* rom_words starts at the hit; the result's ovf says that some u32 operation
\* left its range (symbols then holds the wrapped values), fault is the
\* unimplemented!() arm
parse_relocated(obj_file, filename, stencil, rom_words) ==
    IF obj_file.has_text
    THEN RelocatedFrom([fault |-> FALSE, ovf |-> FALSE, symbols |-> <<>>],
                       obj_file.relocs, filename, stencil, rom_words, 1)
    ELSE [fault |-> FALSE, ovf |-> FALSE, symbols |-> <<>>]

\* `for sym in obj_file.symbol_table().unwrap().symbols()` from symbol n on
RECURSIVE SymtabFrom(_, _, _, _, _, _)
SymtabFrom(acc, symtab, filename, base_address, index, n) ==
    IF n > Len(symtab) THEN acc
    ELSE LET sym == symtab[n]
             a1  == Add32(base_address, U32(index * 4))
             a2  == Add32(a1.val, U32(sym.address))
             next == IF sym.kind = "Text" /\ sym.is_definition
                     THEN [acc EXCEPT
                             !.ovf = @ \/ a1.ovf \/ a2.ovf,
                             !.symbols = Append(@, Symbol(sym.name, a2.val, sym.size,
                                                 filename, sym.is_definition, TRUE))]
                     ELSE acc
         IN  SymtabFrom(next, symtab, filename, base_address, index, n + 1)

parse_symtab_functions(obj_file, filename, base_address, index) ==
    SymtabFrom([fault |-> FALSE, ovf |-> FALSE, symbols |-> <<>>],
               obj_file.symtab, filename, base_address, index, 1)

---------------------------------------------------------------------------
(* Vec::sort_by_key (a stable sort) and Vec::dedup_by_key                  *)

\* a sort key is a tuple of integers, ordered as Rust orders tuples
KeyLt(a, b) ==
    \E k \in 1..Len(a) :
        /\ a[k] < b[k]
        /\ \A m \in 1..(k - 1) : a[m] = b[m]

\* s sorted by the keys (keys[i] is the key of s[i]), equal keys keeping
\* their order
SortByKey(s, keys) ==
    LET n == Len(s)
        Before(i, j) == KeyLt(keys[i], keys[j]) \/ (keys[i] = keys[j] /\ i < j)
        pos(i) == Cardinality({j \in 1..n : Before(j, i)}) + 1
    IN  [p \in 1..n |-> s[CHOOSE i \in 1..n : pos(i) = p]]

\* of each run of consecutive elements with the same key, the first is kept
DedupByKey(s, keys) ==
    LET keep == {i \in 1..Len(s) : i = 1 \/ keys[i - 1] # keys[i]}
        nth(p) == CHOOSE i \in keep : Cardinality({j \in keep : j <= i}) = p
    IN  [p \in 1..Cardinality(keep) |-> s[nth(p)]]

\* the keys of the sorts and dedups of run
AddressKeys(s)     == [i \in 1..Len(s) |-> s[i].address]
NegSizeKeys(s)     == [i \in 1..Len(s) |-> <<0 - s[i].size>>]
NameAddressKeys(s) == [i \in 1..Len(s) |-> <<s[i].name, s[i].address>>]

---------------------------------------------------------------------------
(* The inputs: the searched image and the directory of objects             *)

\* instruction words of the examples: lui $at / addiu $at,$at / jal / j
LUI_0      == W(\h3C01, \h0000)
LUI_8000   == W(\h3C01, \h8000)
ADDIU_0    == W(\h2421, \h0000)
ADDIU_1234 == W(\h2421, \h1234)
ADDIU_FFFC == W(\h2421, \hFFFC)
JAL_0      == W(\h0C00, \h0000)
JAL_0800   == W(\h0C00, \h0800)
JAL_120000 == W(\h0C12, \h0000)
J_0800     == W(\h0800, \h0800)
SLL_3C01   == W(\h0000, \h3C01)

\* the words an image is made of
BlobWords == {ZERO, LUI_0, LUI_8000, ADDIU_1234, ADDIU_FFFC, JAL_0800, J_0800}

\* bounds of the model
MaxBlobWords == 3
MaxObjects   == 3
MaxTotal     == 4

\* the bytes of a word in a file of the given byte order
BytesOfWord(endian, w) ==
    IF endian = "Big"
    THEN <<w[1] \div 256, w[1] % 256, w[2] \div 256, w[2] % 256>>
    ELSE <<w[2] % 256, w[2] \div 256, w[1] % 256, w[1] \div 256>>

RECURSIVE Bytes(_, _)
Bytes(endian, words) ==
    IF words = <<>> THEN <<>>
    ELSE BytesOfWord(endian, Head(words)) \o Bytes(endian, Tail(words))

SymTarget(name, size, def) ==
    [type |-> "Symbol", name |-> name, size |-> size, is_definition |-> def]
SecTarget(name, size) ==
    [type |-> "Section", name |-> name, size |-> size, is_definition |-> TRUE]
NoTarget == [type |-> "Absolute", name |-> "", size |-> 0, is_definition |-> FALSE]

Reloc(offset, kind, target) ==
    [offset |-> offset, kind |-> kind, target |-> target, addend |-> 0]

Sym(name, kind, def, address, size) ==
    [name |-> name, kind |-> kind, is_definition |-> def,
     address |-> address, size |-> size]

Obj(stem, has_text, text_words, relocs, symtab) ==
    [stem |-> stem, has_text |-> has_text, text_words |-> text_words,
     relocs |-> relocs, symtab |-> symtab]

\* the object files a directory may hold, in the order of their path names
Catalogue == <<
    Obj("absent", FALSE, <<>>, <<>>, <<>>),
    Obj("blank", TRUE, <<>>, <<>>, <<>>),
    Obj("dbl", TRUE, <<JAL_120000>>,
        <<Reloc(0, R_MIPS_26, SymTarget("foo", 8, TRUE)),
          Reloc(0, R_MIPS_HI16, SymTarget("foo", 8, TRUE))>>, <<>>),
    Obj("func", TRUE, <<JAL_0800>>,
        <<Reloc(0, R_MIPS_26, SecTarget(".text", 4))>>,
        <<Sym("small", "Text", TRUE, 0, 4), Sym("big", "Text", TRUE, 0, 8),
          Sym("data", "Data", TRUE, 0, 4), Sym("foo", "Text", FALSE, 0, 0)>>),
    Obj("got", TRUE, <<LUI_0>>,
        <<Reloc(0, R_MIPS_GOT16, SymTarget("foo", 0, FALSE))>>, <<>>),
    Obj("hi", TRUE, <<LUI_8000>>,
        <<Reloc(0, R_MIPS_HI16, SymTarget("foo", 0, FALSE))>>, <<>>),
    Obj("hilo", TRUE, <<LUI_0, ADDIU_0>>,
        <<Reloc(0, R_MIPS_HI16, SymTarget("foo", 0, FALSE)),
          Reloc(4, R_MIPS_LO16, SymTarget("foo", 0, FALSE))>>,
        <<Sym("entry", "Text", TRUE, 0, 8)>>),
    Obj("jal", TRUE, <<JAL_0>>,
        <<Reloc(0, R_MIPS_26, SymTarget("foo", 0, FALSE))>>, <<>>),
    Obj("jmp", TRUE, <<J_0800>>,
        <<Reloc(0, R_MIPS_26, NoTarget)>>, <<>>),
    Obj("lo", TRUE, <<ADDIU_1234>>,
        <<Reloc(0, R_MIPS_LO16, SymTarget("foo", 0, FALSE))>>, <<>>),
    Obj("lolo", TRUE, <<LUI_0, ADDIU_0, ADDIU_0>>,
        <<Reloc(0, R_MIPS_HI16, SecTarget(".data", 16)),
          Reloc(4, R_MIPS_LO16, SecTarget(".data", 16)),
          Reloc(8, R_MIPS_LO16, SecTarget(".data", 16))>>, <<>>),
    Obj("plain", TRUE, <<SLL_3C01>>, <<>>, <<>>),
    Obj("sins", TRUE, <<LUI_0>>, <<>>, <<Sym("sins", "Text", TRUE, 0, 4)>>),
    Obj("zeros", TRUE, <<ZERO>>, <<>>, <<>>) >>

\* the parsed object::File of catalogue entry c: its .text holds the words
\* in the byte order of the target
ObjectFile(c, endian) ==
    [stem |-> Catalogue[c].stem, has_text |-> Catalogue[c].has_text,
     text |-> Bytes(endian, Catalogue[c].text_words),
     relocs |-> Catalogue[c].relocs, symtab |-> Catalogue[c].symtab]

\* fs::read_dir(..) sorted: the entries of a directory, each once, in order
ObjectDirs ==
    {s \in UNION {[1..n -> 1..Len(Catalogue)] : n \in 0..MaxObjects} :
        \A i, j \in 1..Len(s) : i < j => s[i] < s[j]}

Blobs == UNION {[1..n -> BlobWords] : n \in 0..MaxBlobWords}

\* libultra::FLAT_AMBIGUOUS_FILES
FLAT_AMBIGUOUS_FILES == {"sins"}

\* the membership test lost: no object counts as ambiguous by name
FlatAmbiguousNever(stem) == FALSE

\* libultra::FLAT_AMBIGUOUS_FILES.contains(&&*file_stem)
FlatAmbiguous(stem) == stem \in FLAT_AMBIGUOUS_FILES

\* run: start = 0x1000 unless --binary
ROM_START == 4096

\* --vram in binary mode, cic_info.correct_entrypoint(..) in rom mode
VRAM_ARG   == W(\h8000, \h2000)
ENTRYPOINT == W(\h8000, \h0400)

---------------------------------------------------------------------------
(* main.rs: run                                                            *)

VARIABLES
    endian,             \* config.endian
    binary,             \* config.binary
    overflow_checks,    \* the build's overflow-checks settings the run so far
                        \* is a run of: both, until an overflow has wrapped
    base_address,
    romfile,            \* the bytes romfile[start..end]: the whole file in
                        \* binary mode, 0x100000 bytes in rom mode, here
                        \* at most MaxBlobWords words in both
    rom_words,
    object_paths,       \* the sorted directory, as indices into Catalogue
    pc,                 \* "object": at `for filepath in object_paths`;
                        \* "hits": in `for result in &rough_results`;
                        \* "done": run returned; "panic": the process aborted
    obj_index,          \* the object the outer loop is at (1-based)
    rough_stencil,      \* the rough stencil of that object
    stencil,            \* the precise stencil of that object
    rough_results,
    result_index,       \* the rough result the inner loop is at (1-based)
    precise_results,
    skipping_symbols,
    files_found,
    files_ambiguous,
    files_not_found,
    ambiguous_addresses,
    all_symbols

inputs == <<endian, binary, base_address, romfile, rom_words, object_paths>>
config == <<inputs, overflow_checks>>
hit_vars == <<rough_stencil, stencil, rough_results, result_index, precise_results,
              skipping_symbols>>
lists == <<files_found, files_ambiguous, files_not_found>>
vars == <<config, pc, obj_index, hit_vars, lists, ambiguous_addresses, all_symbols>>

start == IF binary THEN 0 ELSE ROM_START

\* object::File::parse of every file of the catalogue, per byte order
Files ==
    [e \in {"Big", "Little"} |-> [c \in 1..Len(Catalogue) |-> ObjectFile(c, e)]]

\* the object::File the outer loop is at
obj_file == Files[endian][object_paths[obj_index]]
file_stem == obj_file.stem
text_size == Len(obj_file.text)

Init ==
    /\ endian \in {"Big", "Little"}
    /\ binary \in BOOLEAN
    /\ overflow_checks = BOOLEAN
    /\ base_address = IF binary THEN VRAM_ARG ELSE ENTRYPOINT
    /\ object_paths \in ObjectDirs
    /\ \E blob \in Blobs :
          /\ Len(object_paths) + Len(blob) <= MaxTotal
          /\ romfile = Bytes(endian, blob)
    /\ rom_words = words_from_bytes(endian, romfile)
    /\ pc = "object"
    /\ obj_index = 1
    /\ rough_stencil = <<>>
    /\ stencil = <<>>
    /\ rough_results = <<>>
    /\ result_index = 1
    /\ precise_results = <<>>
    /\ skipping_symbols = FALSE
    /\ files_found = <<>>
    /\ files_ambiguous = <<>>
    /\ files_not_found = <<>>
    /\ ambiguous_addresses = {}
    /\ all_symbols = <<>>

AtObject == pc = "object" /\ obj_index <= Len(object_paths)

\* `continue`, and the end of the loop body
NextObject ==
    /\ pc' = "object"
    /\ obj_index' = obj_index + 1
    /\ rough_stencil' = <<>>
    /\ stencil' = <<>>
    /\ rough_results' = <<>>
    /\ result_index' = 1
    /\ precise_results' = <<>>
    /\ skipping_symbols' = FALSE

Panic ==
    /\ pc' = "panic"
    /\ UNCHANGED <<obj_index, lists, ambiguous_addresses, all_symbols>>

words == words_from_bytes(endian, obj_file.text)
Searchable ==
    /\ AtObject
    /\ obj_file.has_text
    /\ text_size # 0
    /\ \E k \in 1..Len(words) : words[k] # ZERO

made_rough_stencil == make_rough_stencil(endian, obj_file.text)
rough == naive_wordsearch(rom_words, made_rough_stencil)
precise == make_precise_stencil(endian, obj_file, obj_file.text)

\* x is the outcome of a call: fault is a panic of every build, ovf an
\* arithmetic overflow, which panics where overflow checks are compiled in
\* and wraps where they are not
Aborts(x)    == x.fault \/ (x.ovf /\ TRUE \in overflow_checks)
Continues(x) == ~x.fault /\ (x.ovf => FALSE \in overflow_checks)

\* no .text section: the else branch of `if let Some(section)`
NoTextSection ==
    /\ AtObject
    /\ ~obj_file.has_text
    /\ NextObject
    /\ UNCHANGED <<config, lists, ambiguous_addresses, all_symbols>>

SizeZero ==
    /\ AtObject
    /\ obj_file.has_text
    /\ text_size = 0
    /\ NextObject
    /\ UNCHANGED <<config, lists, ambiguous_addresses, all_symbols>>

OnlyZeros ==
    /\ AtObject
    /\ obj_file.has_text
    /\ text_size # 0
    /\ \A k \in 1..Len(words) : words[k] = ZERO
    /\ NextObject
    /\ UNCHANGED <<config, lists, ambiguous_addresses, all_symbols>>

\* naive_wordsearch aborts
RoughPanic ==
    /\ Searchable
    /\ Aborts(rough)
    /\ rough_stencil' = made_rough_stencil
    /\ Panic
    /\ UNCHANGED <<config, stencil, rough_results, result_index, precise_results,
                   skipping_symbols>>

RoughEmpty ==
    /\ Searchable
    /\ LET r == rough
       IN  /\ Continues(r)
           /\ Len(r.results) = 0
           /\ overflow_checks' = IF r.ovf THEN {FALSE} ELSE overflow_checks
    /\ files_not_found' = Append(files_not_found, file_stem)
    /\ NextObject
    /\ UNCHANGED <<inputs, files_found, files_ambiguous, ambiguous_addresses,
                   all_symbols>>

\* make_precise_stencil reaches unimplemented!()
StencilPanic ==
    /\ Searchable
    /\ LET r == rough
       IN  /\ Continues(r)
           /\ Len(r.results) # 0
           /\ overflow_checks' = IF r.ovf THEN {FALSE} ELSE overflow_checks
           /\ rough_results' = r.results
    /\ rough_stencil' = made_rough_stencil
    /\ precise.fault
    /\ Panic
    /\ UNCHANGED <<inputs, stencil, result_index, precise_results, skipping_symbols>>

RoughPass ==
    /\ Searchable
    /\ LET r == rough
       IN  /\ Continues(r)
           /\ Len(r.results) # 0
           /\ overflow_checks' = IF r.ovf THEN {FALSE} ELSE overflow_checks
           /\ rough_results' = r.results
    /\ rough_stencil' = made_rough_stencil
    /\ LET p == precise
       IN  /\ ~p.fault
           /\ stencil' = p.output
    /\ result_index' = 1
    /\ precise_results' = <<>>
    /\ skipping_symbols' = FALSE
    /\ pc' = "hits"
    /\ UNCHANGED <<inputs, obj_index, lists, ambiguous_addresses, all_symbols>>

AtResult == pc = "hits" /\ result_index <= Len(rough_results)
result == rough_results[result_index]
index == result \div 4
\* rom_words[index..index + n]
Window(n) == SubSeq(rom_words, index + 1, index + n)

PreciseReject ==
    /\ AtResult
    /\ ~precise_check(Window(Len(stencil)), stencil)
    /\ result_index' = result_index + 1
    /\ UNCHANGED <<config, pc, obj_index, rough_stencil, stencil, rough_results,
                   precise_results, skipping_symbols, lists, ambiguous_addresses,
                   all_symbols>>

\* the object is on the list of ambiguous files: the hit is kept, no symbols
HitSkippingSymbols ==
    /\ AtResult
    /\ precise_check(Window(Len(stencil)), stencil)
    /\ FlatAmbiguous(file_stem)
    /\ precise_results' = Append(precise_results, result + start)
    /\ skipping_symbols' = TRUE
    /\ result_index' = result_index + 1
    /\ UNCHANGED <<config, pc, obj_index, rough_stencil, stencil, rough_results,
                   lists, ambiguous_addresses, all_symbols>>

symtab_symbols == parse_symtab_functions(obj_file, file_stem, base_address, index)
relocated == parse_relocated(obj_file, file_stem, stencil, Window(text_size \div 4))

\* both parses of one hit: symbols holds the two lists, one after the other
ParseHit ==
    LET t == symtab_symbols
        r == relocated
    IN  [fault |-> r.fault, ovf |-> t.ovf \/ r.ovf, symbols |-> t.symbols \o r.symbols]

\* symbols.sort_by_key(|x| x.address); symbols.dedup_by_key(|x| x.address)
HitSymbolList(symbols) ==
    LET sorted == SortByKey(symbols, AddressKeys(symbols))
    IN  DedupByKey(sorted, AddressKeys(sorted))

HitSymbols ==
    /\ AtResult
    /\ precise_check(Window(Len(stencil)), stencil)
    /\ ~FlatAmbiguous(file_stem)
    /\ LET p == ParseHit
       IN  /\ Continues(p)
           /\ overflow_checks' = IF p.ovf THEN {FALSE} ELSE overflow_checks
           /\ all_symbols' = all_symbols \o HitSymbolList(p.symbols)
    /\ precise_results' = Append(precise_results, result + start)
    /\ result_index' = result_index + 1
    /\ UNCHANGED <<inputs, pc, obj_index, rough_stencil, stencil, rough_results,
                   skipping_symbols, lists, ambiguous_addresses>>

\* symbol parsing aborts after the hit was pushed
HitSymbolsPanic ==
    /\ AtResult
    /\ precise_check(Window(Len(stencil)), stencil)
    /\ ~FlatAmbiguous(file_stem)
    /\ Aborts(ParseHit)
    /\ precise_results' = Append(precise_results, result + start)
    /\ Panic
    /\ UNCHANGED <<config, rough_stencil, stencil, rough_results, result_index,
                   skipping_symbols>>

FoundFile(stem, path, text_start, size) ==
    [stem |-> stem, path |-> path, text_start |-> text_start, text_size |-> size]

\* `match precise_results.len()`
Classify ==
    /\ pc = "hits"
    /\ result_index > Len(rough_results)
    /\ CASE Len(precise_results) = 0 ->
              /\ files_not_found' = Append(files_not_found, file_stem)
              /\ UNCHANGED <<files_found, files_ambiguous>>
         [] Len(precise_results) = 1 ->
              /\ files_found' = Append(files_found,
                    FoundFile(file_stem, object_paths[obj_index],
                              precise_results[1], text_size))
              /\ UNCHANGED <<files_not_found, files_ambiguous>>
         [] OTHER ->
              /\ files_ambiguous' = Append(files_ambiguous,
                                           <<file_stem, precise_results>>)
              /\ UNCHANGED <<files_not_found, files_found>>
    /\ NextObject
    /\ UNCHANGED <<config, ambiguous_addresses, all_symbols>>

TextStartKeys(s) == [i \in 1..Len(s) |-> <<s[i].text_start>>]
FirstHitKeys(s)  == [i \in 1..Len(s) |-> <<s[i][2][1]>>]

\* after the loop: the sorts, the ambiguous addresses and the final dedup
Report ==
    /\ pc = "object"
    /\ obj_index > Len(object_paths)
    /\ files_found' = SortByKey(files_found, TextStartKeys(files_found))
    /\ ambiguous_addresses' =
          {files_found[i].text_start : i \in
              {i \in 1..Len(files_found) :
                  \E j \in 1..Len(files_found) :
                      j # i /\ files_found[j].text_start = files_found[i].text_start}}
    /\ files_ambiguous' = SortByKey(files_ambiguous, FirstHitKeys(files_ambiguous))
    /\ all_symbols' =
          LET by_size    == SortByKey(all_symbols, NegSizeKeys(all_symbols))
              by_address == SortByKey(by_size, AddressKeys(by_size))
          IN  DedupByKey(by_address, NameAddressKeys(by_address))
    /\ pc' = "done"
    /\ UNCHANGED <<config, obj_index, hit_vars, files_not_found>>

Next ==
    \/ NoTextSection
    \/ SizeZero
    \/ OnlyZeros
    \/ RoughPanic
    \/ RoughEmpty
    \/ StencilPanic
    \/ RoughPass
    \/ PreciseReject
    \/ HitSkippingSymbols
    \/ HitSymbols
    \/ HitSymbolsPanic
    \/ Classify
    \/ Report

Spec == Init /\ [][Next]_vars

---------------------------------------------------------------------------
(* main.rs: naive_wordsearch called on its own, as tests::test calls it    *)

\* bound on the lengths of v and of pattern
MaxSearchWords == 3

\* the words of v, and the opcodes a rough stencil is made of
SearchWords   == {ZERO, LUI_8000, JAL_0800}
SearchOpcodes == {BitAnd(w, ROUGH_MASK) : w \in SearchWords}

\* the call naive_wordsearch(&v, &pattern): v is rom_words, pattern is
\* rough_stencil, and the result goes to rough_results
SearchInit ==
    /\ endian = "Big"
    /\ binary = TRUE
    /\ overflow_checks = BOOLEAN
    /\ base_address = VRAM_ARG
    /\ rom_words \in UNION {[1..n -> SearchWords] : n \in 0..MaxSearchWords}
    /\ romfile = Bytes(endian, rom_words)
    /\ rough_stencil \in UNION {[1..n -> SearchOpcodes] : n \in 0..MaxSearchWords}
    /\ object_paths = <<>>
    /\ pc = "call"
    /\ obj_index = 1
    /\ stencil = <<>>
    /\ rough_results = <<>>
    /\ result_index = 1
    /\ precise_results = <<>>
    /\ skipping_symbols = FALSE
    /\ files_found = <<>>
    /\ files_ambiguous = <<>>
    /\ files_not_found = <<>>
    /\ ambiguous_addresses = {}
    /\ all_symbols = <<>>

SearchReturns ==
    /\ pc = "call"
    /\ LET r == naive_wordsearch(rom_words, rough_stencil)
       IN  /\ Continues(r)
           /\ overflow_checks' = IF r.ovf THEN {FALSE} ELSE overflow_checks
           /\ rough_results' = r.results
    /\ pc' = "returned"
    /\ UNCHANGED <<inputs, obj_index, rough_stencil, stencil, result_index,
                   precise_results, skipping_symbols, lists, ambiguous_addresses,
                   all_symbols>>

SearchPanics ==
    /\ pc = "call"
    /\ Aborts(naive_wordsearch(rom_words, rough_stencil))
    /\ pc' = "panic"
    /\ UNCHANGED <<config, obj_index, hit_vars, lists, ambiguous_addresses,
                   all_symbols>>

SearchNext == SearchReturns \/ SearchPanics

SearchSpec == SearchInit /\ [][SearchNext]_vars

---------------------------------------------------------------------------
(* Properties                                                              *)

\* the .text words of the object the outer loop is at, as the stencil
\* builder read them
StencilBuilt == pc \in {"hits", "panic"} /\ stencil # <<>>

\* C1 (Stencil mask invariant): in the precise stencil that
\* make_precise_stencil built for an object, every entry j holds
\* (original_word[j] & mask) = word and (original_word[j] & ~mask) = addend;
\* an entry whose word carries no relocation has mask = 0xFFFF_FFFF,
\* word = the raw instruction and addend = 0.
StencilMaskInvariant ==
    StencilBuilt =>
        \A j \in 1..Len(stencil) :
            /\ BitAnd(words[j], stencil[j].mask) = stencil[j].word
            /\ BitAnd(words[j], BitNot(stencil[j].mask)) = stencil[j].addend
            /\ (\A n \in 1..Len(obj_file.relocs) :
                    obj_file.relocs[n].offset \div 4 # j - 1)
               => /\ stencil[j].mask = FULL_MASK
                  /\ stencil[j].word = words[j]
                  /\ stencil[j].addend = ZERO

\* the stencil built for an object keeps, at a word without relocation, the
\* raw instruction as addend
RawWordKeptAsAddend ==
    /\ StencilBuilt
    /\ \E j \in 1..Len(stencil) :
          /\ \A n \in 1..Len(obj_file.relocs) :
                obj_file.relocs[n].offset \div 4 # j - 1
          /\ words[j] # ZERO
          /\ stencil[j].addend = words[j]

---------------------------------------------------------------------------
(* The matcher's reports                                                   *)

Range(s) == {s[i] : i \in DOMAIN s}

\* the objects of the directory, and those the loop is through with
Objects   == 1..Len(object_paths)
Processed == {n \in Objects : n < obj_index}
FileAt(n) == Files[endian][object_paths[n]]
WordsOf(f) == words_from_bytes(endian, f.text)

\* the object is skipped before any search: no .text, or an empty or
\* all-zero one
Skipped(f) ==
    \/ ~f.has_text
    \/ Len(f.text) = 0
    \/ \A k \in 1..Len(WordsOf(f)) : WordsOf(f)[k] = ZERO

\* every relocation of the object is of a kind the stencil builder handles
Supported(f) ==
    \A n \in 1..Len(f.relocs) :
        f.relocs[n].kind \in {R_MIPS_26, R_MIPS_HI16, R_MIPS_LO16}

\* the hits the run lists for the n-th object, as Found or as Ambiguous
ReportedHits(n) ==
    {files_found[i].text_start :
        i \in {i \in 1..Len(files_found) : files_found[i].stem = FileAt(n).stem}}
    \cup UNION {Range(files_ambiguous[i][2]) :
        i \in {i \in 1..Len(files_ambiguous) :
                  files_ambiguous[i][1] = FileAt(n).stem}}

\* the hit loop of the current object has handled the rough hit at offset k
\* as far as the push onto precise_results
Reached(k) ==
    \E p \in 1..Len(rough_results) :
        /\ rough_results[p] = k
        /\ \/ p < result_index
           \/ pc = "panic" /\ p = result_index /\ Len(precise_results) > 0

\* the searched region holds the bytes of text at byte offset k
ContainsAt(k, text) ==
    /\ k + Len(text) <= Len(romfile)
    /\ SubSeq(romfile, k + 1, k + Len(text)) = text

\* the window of the searched words a stencil of f is compared with at
\* word index i
WindowAt(f, i) == SubSeq(rom_words, i + 1, i + Len(WordsOf(f)))

\* C2 (Self-match), as stated: for every object O and every byte offset k
\* at which the searched blob holds the unmodified bytes of O.text, the
\* matcher reports k among O's hits once it is through with O.
SelfMatch ==
    \A n \in Processed :
        FileAt(n).has_text =>
            \A k \in 0..Len(romfile) :
                ContainsAt(k, FileAt(n).text) => (start + k) \in ReportedHits(n)

\* C2 (Self-match), amended: for every object that is not skipped and
\* every word-aligned offset k at which the blob holds the unmodified bytes
\* of its .text, k is a rough hit that passes precise_check, start + k is
\* pushed onto precise_results when the hit loop reaches it, and the
\* classification of the object lists start + k.
SelfMatchAligned ==
    /\ StencilBuilt =>
          \A k \in 0..Len(romfile) :
              (k % 4 = 0 /\ ContainsAt(k, obj_file.text)) =>
                  /\ k \in Range(rough_results)
                  /\ precise_check(WindowAt(obj_file, k \div 4), stencil)
                  /\ Reached(k) => (start + k) \in Range(precise_results)
    /\ \A n \in Processed :
          ~Skipped(FileAt(n)) =>
              \A k \in 0..Len(romfile) :
                  (k % 4 = 0 /\ ContainsAt(k, FileAt(n).text)) =>
                      (start + k) \in ReportedHits(n)

\* an object with relocations was found where the blob holds its own bytes
SelfMatchReported ==
    /\ pc = "done"
    /\ \E n \in Objects :
          /\ FileAt(n).relocs # <<>>
          /\ \E k \in 0..Len(romfile) :
                /\ k % 4 = 0
                /\ ContainsAt(k, FileAt(n).text)
                /\ (start + k) \in ReportedHits(n)

\* the bits of word j (0-based) of f that no relocation rewrites: all but
\* the 26 low bits under an R_MIPS_26, all but the 16 low bits under an
\* R_MIPS_HI16 or R_MIPS_LO16, every bit of a word without relocation
KeptBits(f, j) ==
    LET kinds == {f.relocs[n].kind :
                     n \in {n \in 1..Len(f.relocs) : f.relocs[n].offset \div 4 = j}}
    IN  IF R_MIPS_26 \in kinds THEN W(\hFC00, 0)
        ELSE IF kinds # {} THEN W(\hFFFF, 0)
        ELSE W(\hFFFF, \hFFFF)

\* the blob words at word index i agree with the .text of f on every bit no
\* relocation rewrites
AgreesAt(f, i) ==
    /\ i + Len(WordsOf(f)) <= Len(rom_words)
    /\ \A j \in 1..Len(WordsOf(f)) :
          BitAnd(rom_words[i + j], KeptBits(f, j - 1))
              = BitAnd(WordsOf(f)[j], KeptBits(f, j - 1))

\* C3 (Relocation invariance): a blob location that differs from an
\* object's .text only in the bits its relocations rewrite is rejected
\* neither by the rough scan nor by precise_check, and is reported at the
\* same offset.
RelocationInvariance ==
    /\ StencilBuilt =>
          \A i \in 0..Len(rom_words) :
              AgreesAt(obj_file, i) =>
                  /\ (4 * i) \in Range(rough_results)
                  /\ precise_check(WindowAt(obj_file, i), stencil)
                  /\ Reached(4 * i) => (start + 4 * i) \in Range(precise_results)
    /\ \A n \in Processed :
          (~Skipped(FileAt(n)) /\ Supported(FileAt(n))) =>
              \A i \in 0..Len(rom_words) :
                  AgreesAt(FileAt(n), i) => (start + 4 * i) \in ReportedHits(n)

\* an object was reported at a location whose relocated bits differ from
\* those of its .text
RelocatedMatchReported ==
    /\ pc = "done"
    /\ \E n \in Objects : \E i \in 0..Len(rom_words) :
          /\ ~Skipped(FileAt(n))
          /\ Supported(FileAt(n))
          /\ AgreesAt(FileAt(n), i)
          /\ WindowAt(FileAt(n), i) # WordsOf(FileAt(n))
          /\ (start + 4 * i) \in ReportedHits(n)

\* hit h of an object with precise stencil st: h is a word of the searched
\* region at which every blob word equals the stencil word under the mask,
\* and so equals the .text of f on every bit no relocation rewrites
IsPreciseMatch(f, st, h) ==
    /\ h >= start
    /\ (h - start) % 4 = 0
    /\ LET i == (h - start) \div 4
       IN  /\ i + Len(st) <= Len(rom_words)
           /\ \A j \in 1..Len(st) :
                 BitAnd(rom_words[i + j], st[j].mask) = st[j].word
           /\ AgreesAt(f, i)

\* C4 (No false precise): every hit the matcher reports for an object at
\* word index i satisfies, for every j below the stencil length,
\* (blob[i + j] & stencil[j].mask) = stencil[j].word; a location with a
\* flipped bit inside a masked-in region is not reported.
NoFalsePrecise ==
    /\ StencilBuilt =>
          /\ \A h \in Range(precise_results) : IsPreciseMatch(obj_file, stencil, h)
          /\ \A r \in Range(rough_results) :
                precise_check(WindowAt(obj_file, r \div 4), stencil)
                    => IsPreciseMatch(obj_file, stencil, r + start)
    /\ \A n \in Objects :
          \A h \in ReportedHits(n) :
              IsPreciseMatch(FileAt(n),
                  make_precise_stencil(endian, FileAt(n), FileAt(n).text).output, h)

\* an object was reported at one location although the rough scan had found
\* it at another one too, which differs in a masked-in bit
RoughHitRejected ==
    /\ pc = "done"
    /\ \E n \in Objects : \E i \in 0..Len(rom_words) :
          /\ ReportedHits(n) # {}
          /\ i + Len(WordsOf(FileAt(n))) <= Len(rom_words)
          /\ \A j \in 1..Len(WordsOf(FileAt(n))) :
                BitAnd(rom_words[i + j], ROUGH_MASK)
                    = BitAnd(WordsOf(FileAt(n))[j], ROUGH_MASK)
          /\ ~AgreesAt(FileAt(n), i)
          /\ (start + 4 * i) \notin ReportedHits(n)

---------------------------------------------------------------------------
(* Symbol recovery                                                         *)

\* HI(A) = ((A + 0x8000) >> 16) & 0xFFFF and LO(A) = A & 0xFFFF
HI(A) == Add32(A, W(0, \h8000)).val[1]
LO(A) == A[2]

\* addresses on both sides of the sign bit of LO and of the ends of the
\* 32-bit range
RoundTripAddresses ==
    {W(h, l) : h \in {0, \h7FFF, \h8000, \hFFFF}, l \in {\h1234, \hFFFC}}

\* the object the loop is at carries a HI16 on its first word and a LO16 on
\* its second, with relocation and stencil addends 0, and the hit the loop
\* is at holds lui HI(A); addiu LO(A)
HiLoBlockOf(A) ==
    /\ StencilBuilt
    /\ result_index <= Len(rough_results)
    /\ Len(stencil) = 2
    /\ Len(obj_file.relocs) = 2
    /\ obj_file.relocs[1].kind = R_MIPS_HI16 /\ obj_file.relocs[1].offset = 0
    /\ obj_file.relocs[2].kind = R_MIPS_LO16 /\ obj_file.relocs[2].offset = 4
    /\ obj_file.relocs[2].addend = 0
    /\ stencil[1].addend = ZERO /\ stencil[2].addend = ZERO
    /\ Window(2) = <<W(LUI_0[1], HI(A)), W(ADDIU_0[1], LO(A))>>

\* C5 (HI/LO round trip): for every 32-bit address A, on the block
\* lui HI(A); addiu LO(A) with a HI16 on the first and a LO16 on the second
\* word (addends 0), parse_relocated completes without arithmetic fault and
\* returns one complete symbol whose address is A.
HiLoRoundTrip ==
    \A A \in RoundTripAddresses :
        HiLoBlockOf(A) =>
            /\ pc # "panic"
            /\ ~relocated.fault
            /\ ~relocated.ovf
            /\ Len(relocated.symbols) = 1
            /\ relocated.symbols[1].complete
            /\ relocated.symbols[1].address = A

\* the run has aborted in the symbol recovery of lui 0; addiu -4
HiLoUnderflow ==
    /\ pc = "panic"
    /\ HiLoBlockOf(W(\hFFFF, \hFFFC))

\* C6 (Sort/dedup law): the symbol list the run emits is sorted by
\* (address ascending, size descending) and holds no two entries with the
\* same (name, address) pair.
SortDedupLaw ==
    pc = "done" =>
        /\ \A i \in 1..(Len(all_symbols) - 1) :
              \/ Less32(all_symbols[i].address, all_symbols[i + 1].address)
              \/ /\ all_symbols[i].address = all_symbols[i + 1].address
                 /\ all_symbols[i].size >= all_symbols[i + 1].size
        /\ \A i, j \in 1..Len(all_symbols) :
              (all_symbols[i].name = all_symbols[j].name
                  /\ all_symbols[i].address = all_symbols[j].address) => i = j

\* the emitted list holds one (name, address) pair twice, with an entry of
\* another name between the two
DuplicateEmitted ==
    /\ pc = "done"
    /\ \E i, j \in 1..Len(all_symbols) :
          /\ i + 1 < j
          /\ all_symbols[i].name = all_symbols[j].name
          /\ all_symbols[i].address = all_symbols[j].address

\* the stems of the three result lists
FoundStems     == {files_found[i].stem : i \in 1..Len(files_found)}
AmbiguousStems == {files_ambiguous[i][1] : i \in 1..Len(files_ambiguous)}
NotFoundStems  == Range(files_not_found)
Listed         == FoundStems \cup AmbiguousStems \cup NotFoundStems

\* C7 (Unsupported relocation kind): an object whose .text carries a
\* relocation of a kind other than R_MIPS_26, R_MIPS_HI16 and R_MIPS_LO16
\* does not stop the run, and it is in none of the Found, Ambiguous and
\* NotFound lists.
UnsupportedFailsClosed ==
    \A n \in Objects :
        (~Skipped(FileAt(n)) /\ ~Supported(FileAt(n))) =>
            /\ ~(pc = "panic" /\ obj_index = n /\ rough_results # <<>>)
            /\ n \in Processed => FileAt(n).stem \notin Listed

\* the run has aborted in the stencil builder
UnsupportedAborts ==
    /\ pc = "panic"
    /\ rough_results # <<>>
    /\ ~Supported(obj_file)

\* the word indices at which the blob agrees with the .text of f on every
\* bit no relocation rewrites: the precise hits of f
HitsOf(f) == {i \in 0..Len(rom_words) : AgreesAt(f, i)}

\* C8 (Classification by hit count): when the run has ended, every object
\* that is not skipped is in exactly one of the three lists: NotFound with
\* 0 precise hits, Found with exactly 1 and text_start that hit, Ambiguous
\* with more than 1 and all of them; a skipped object is in none.
ClassifiedByHitCount ==
    pc \in {"done", "panic"} =>
        \A n \in Objects :
            LET f    == FileAt(n)
                hits == {start + 4 * i : i \in HitsOf(f)}
            IN  IF Skipped(f) THEN f.stem \notin Listed
                ELSE CASE Cardinality(hits) = 0 ->
                            /\ f.stem \in NotFoundStems
                            /\ f.stem \notin FoundStems \cup AmbiguousStems
                       [] Cardinality(hits) = 1 ->
                            /\ f.stem \in FoundStems
                            /\ f.stem \notin NotFoundStems \cup AmbiguousStems
                            /\ ReportedHits(n) = hits
                       [] OTHER ->
                            /\ f.stem \in AmbiguousStems
                            /\ f.stem \notin NotFoundStems \cup FoundStems
                            /\ ReportedHits(n) = hits

\* the run has aborted in the rough scan of an object with more words than
\* the blob
LongerThanBlobAborts ==
    /\ pc = "panic"
    /\ rough_results = <<>>
    /\ ~Skipped(obj_file)
    /\ Len(words) > Len(rom_words)

\* C9 (No half-built symbols): every symbol that parse_relocated returns,
\* and so every symbol of the emitted list, has complete = true; a HI16
\* that no LO16 binds yields no symbol.
NoHalfBuiltSymbols ==
    /\ \A i \in 1..Len(all_symbols) : all_symbols[i].complete
    /\ (AtResult /\ precise_check(Window(Len(stencil)), stencil)) =>
          \A i \in 1..Len(relocated.symbols) : relocated.symbols[i].complete

\* the symbol list holds a symbol whose HI16 no LO16 has bound
HalfBuiltEmitted ==
    \E i \in 1..Len(all_symbols) : ~all_symbols[i].complete

\* C10 (Symbols only from non-ambiguous objects), as stated: no symbol of
\* the list comes from an object that is on the ambiguous-by-name list or
\* that is classified Ambiguous.
SymbolsOnlyFromUnambiguous ==
    \A i \in 1..Len(all_symbols) :
        /\ all_symbols[i].filename \notin FLAT_AMBIGUOUS_FILES
        /\ all_symbols[i].filename \notin AmbiguousStems

\* the symbols one precise hit h of the n-th object contributes
SymbolsOfHit(n, h) ==
    LET f  == FileAt(n)
        i  == (h - start) \div 4
        st == make_precise_stencil(endian, f, f.text).output
    IN  HitSymbolList(
            parse_symtab_functions(f, f.stem, base_address, i).symbols
            \o parse_relocated(f, f.stem, st, WindowAt(f, i)).symbols)

\* C10 (Symbols only from non-ambiguous objects), amended: every symbol of
\* the list comes from an object that is not on the ambiguous-by-name list
\* and has a precise hit; an object on that list contributes no symbol;
\* an object classified Ambiguous that is not on the list contributes the
\* symbols of each of its hits, each (name, address) pair of which is in
\* the emitted list.
SymbolsOnlyOffTheList ==
    /\ \A i \in 1..Len(all_symbols) :
          /\ all_symbols[i].filename \notin FLAT_AMBIGUOUS_FILES
          /\ \E n \in Objects :
                /\ FileAt(n).stem = all_symbols[i].filename
                /\ \/ ReportedHits(n) # {}
                   \/ n = obj_index /\ precise_results # <<>>
    /\ pc = "done" =>
          \A n \in Objects :
              (FileAt(n).stem \in AmbiguousStems /\ FileAt(n).stem \notin FLAT_AMBIGUOUS_FILES) =>
                  \A h \in ReportedHits(n) :
                      \A k \in 1..Len(SymbolsOfHit(n, h)) :
                          \E i \in 1..Len(all_symbols) :
                              /\ all_symbols[i].name = SymbolsOfHit(n, h)[k].name
                              /\ all_symbols[i].address = SymbolsOfHit(n, h)[k].address

\* an object of the ambiguous-by-name list was hit, and the list holds a
\* symbol of an object classified Ambiguous
AmbiguousContributes ==
    /\ pc = "done"
    /\ \E n \in Objects : FileAt(n).stem \in FLAT_AMBIGUOUS_FILES /\ ReportedHits(n) # {}
    /\ \E i \in 1..Len(all_symbols) : all_symbols[i].filename \in AmbiguousStems

---------------------------------------------------------------------------
(* J26 recovery                                                            *)

\* a | b
BitOr(a, b) ==
    <<a[1] + b[1] - And16(a[1], b[1]), a[2] + b[2] - And16(a[2], b[2])>>

\* (0x8000_0000 | ((w & 0x03FF_FFFF) << 2)) - add, as an integer pair; the
\* difference is taken half by half with a borrow, and is not reduced
J26Target(w) == BitOr(W(\h8000, 0), Shl(BitAnd(w, W(\h03FF, \hFFFF)), 2))
J26Address(w, add) ==
    LET t  == J26Target(w)
        lo == t[2] - add[2]
        bw == IF lo < 0 THEN 1 ELSE 0
    IN  <<t[1] - add[1] - bw, lo + bw * HALF>>

\* the primary opcode of w is the unconditional j (opcode 2)
IsJ(w) == w[1] \div 1024 = 2

\* the relocations of f are R_MIPS_26 up to some position, and of another
\* kind after it
J26Count(f) == Cardinality({n \in 1..Len(f.relocs) : f.relocs[n].kind = R_MIPS_26})
J26First(f) ==
    \A n \in 1..Len(f.relocs) : (f.relocs[n].kind = R_MIPS_26) <=> (n <= J26Count(f))

\* the J26 relocations of the current object whose matched word is not a j
J26Emitting ==
    {n \in 1..J26Count(obj_file) :
        ~IsJ(Window(Len(stencil))[obj_file.relocs[n].offset \div 4 + 1])}

\* C11 (J26 recovery): for a J26 relocation at word index idx,
\* parse_relocated emits no symbol when the matched blob word is a j, and
\* otherwise one complete symbol whose address is
\* (0x8000_0000 | ((w & 0x03FF_FFFF) << 2)) - stencil[idx].addend, without
\* arithmetic fault; w = 0x0C00_0800 with addend 0 gives 0x8000_2000.
J26Recovery ==
    /\ J26Address(JAL_0800, ZERO) = W(\h8000, \h2000)
    /\ (AtResult /\ precise_check(Window(Len(stencil)), stencil)
            /\ Supported(obj_file) /\ J26First(obj_file)) =>
          LET emitted == relocated.symbols
              nth(p)  == CHOOSE n \in J26Emitting :
                            Cardinality({m \in J26Emitting : m <= n}) = p
          IN  /\ Len(emitted) >= Cardinality(J26Emitting)
              /\ J26Count(obj_file) = Len(obj_file.relocs) =>
                    /\ Len(emitted) = Cardinality(J26Emitting)
                    /\ ~relocated.ovf
                    /\ ~relocated.fault
              /\ \A p \in 1..Cardinality(J26Emitting) :
                    LET idx == obj_file.relocs[nth(p)].offset \div 4
                    IN  /\ emitted[p].complete
                        /\ emitted[p].address =
                              J26Address(Window(Len(stencil))[idx + 1],
                                         stencil[idx + 1].addend)
    /\ \A i \in 1..Len(all_symbols) :
          \A n \in Objects :
              (FileAt(n).stem = all_symbols[i].filename
                  /\ FileAt(n).symtab = <<>>
                  /\ J26Count(FileAt(n)) = Len(FileAt(n).relocs)) =>
                  /\ all_symbols[i].complete
                  /\ \E k \in 1..Len(rom_words), r \in 1..Len(FileAt(n).relocs) :
                        /\ ~IsJ(rom_words[k])
                        /\ all_symbols[i].address =
                              J26Address(rom_words[k],
                                  BitAnd(WordsOf(FileAt(n))[FileAt(n).relocs[r].offset \div 4 + 1],
                                         W(\h03FF, \hFFFF)))

\* the list holds the symbol recovered from jal 0x0C00_0800 with addend 0,
\* at 0x8000_2000, and one recovered with a non-zero addend; an object
\* matched at a j was reported and has no symbol
J26Recovered ==
    /\ pc = "done"
    /\ \E i \in 1..Len(all_symbols) :
          /\ all_symbols[i].filename = "jal"
          /\ all_symbols[i].address = W(\h8000, \h2000)
          /\ all_symbols[i].complete
    /\ \E n \in Objects :
          /\ FileAt(n).stem = "jmp"
          /\ ReportedHits(n) # {}
    /\ \A i \in 1..Len(all_symbols) : all_symbols[i].filename # "jmp"

---------------------------------------------------------------------------
(* The rough scan                                                          *)

\* the start indices i in [0, len(v) - len(p)] at which every word of v
\* has the opcode the stencil p holds
RoughStarts(v, p) ==
    {i \in 0..(Len(v) - Len(p)) :
        \A j \in 1..Len(p) : BitAnd(v[i + j], W(\hFC00, 0)) = p[j]}

\* C12 (Rough scan result): for a blob v and a rough stencil p with
\* len(p) <= len(v), naive_wordsearch returns the strictly ascending list
\* of the byte offsets 4 * i of the start indices i in [0, len(v) - len(p)]
\* at which (v[i + j] & 0xFC00_0000) = p[j] for every j; an empty stencil
\* matches at every start index, and an empty blob searched for an empty
\* stencil gives [0].
RoughScanResult ==
    (pc \in {"returned", "panic"} /\ Len(rough_stencil) <= Len(rom_words)) =>
          /\ pc = "returned"
          /\ \A k \in 1..(Len(rough_results) - 1) :
                rough_results[k] < rough_results[k + 1]
          /\ Range(rough_results) = {4 * i : i \in RoughStarts(rom_words, rough_stencil)}
          /\ rough_stencil = <<>> =>
                rough_results = [k \in 1..(Len(rom_words) + 1) |-> 4 * (k - 1)]
          /\ (rough_stencil = <<>> /\ rom_words = <<>>) => rough_results = <<0>>

\* the search of an empty blob for an empty stencil has returned [0]
EmptySearchReturned ==
    /\ pc = "returned"
    /\ rom_words = <<>>
    /\ rough_stencil = <<>>
    /\ rough_results = <<0>>

\* a search has returned two offsets and skipped a start index between them
TwoOffsetsReturned ==
    /\ pc = "returned"
    /\ rough_stencil # <<>>
    /\ rough_results = <<0, 8>>

---------------------------------------------------------------------------
(* LO16 relocations                                                        *)

\* the symbols parse_relocated holds after the first n relocations of the
\* current object, at the current hit
SymbolsAfter(n) ==
    RelocatedFrom([fault |-> FALSE, ovf |-> FALSE, symbols |-> <<>>],
                  SubSeq(obj_file.relocs, 1, n), file_stem, stencil,
                  Window(text_size \div 4), 1).symbols

\* the LO16 relocations of the current object
LO16s == {n \in 1..Len(obj_file.relocs) : obj_file.relocs[n].kind = R_MIPS_LO16}

\* a and b are the same symbol but for address and complete
SameButAddress(a, b) == [a EXCEPT !.address = b.address, !.complete = b.complete] = b

\* C13 (Positional LO16 binding): a LO16 relocation changes only the most
\* recently emitted symbol, and only if that symbol is incomplete, and the
\* symbol is then complete; if the list is empty or its last symbol is
\* complete the LO16 leaves the whole list as it is, so of several LO16s
\* after one HI16 only the first alters the address.
LO16BindsLast ==
    (AtResult /\ precise_check(Window(Len(stencil)), stencil) /\ Supported(obj_file)) =>
        \A n \in LO16s :
            LET before == SymbolsAfter(n - 1)
                after  == SymbolsAfter(n)
                last   == Len(before)
            IN  /\ Len(after) = last
                /\ \A k \in 1..(last - 1) : after[k] = before[k]
                /\ IF last > 0 /\ ~before[last].complete
                   THEN /\ SameButAddress(before[last], after[last])
                        /\ after[last].complete
                   ELSE after = before
                /\ (n - 1) \in LO16s => after = before

\* a precise hit of lolo (HI16, LO16, LO16) whose third word has low bits
\* set: the first LO16 completed the symbol, the second left it alone
SecondLO16Ignored ==
    /\ AtResult
    /\ precise_check(Window(Len(stencil)), stencil)
    /\ file_stem = "lolo"
    /\ BitAnd(Window(3)[3], W(0, \hFFFF)) # ZERO
    /\ ~SymbolsAfter(1)[1].complete
    /\ SymbolsAfter(2)[1].complete
    /\ SymbolsAfter(3) = SymbolsAfter(2)

\* a precise hit of lo, whose only relocation is a LO16: no symbol
OrphanLO16Ignored ==
    /\ AtResult
    /\ precise_check(Window(Len(stencil)), stencil)
    /\ file_stem = "lo"
    /\ SymbolsAfter(1) = <<>>

---------------------------------------------------------------------------
(* The symbols of one hit                                                  *)

\* the current rough hit is a precise hit whose symbols are parsed and kept
HitParsed ==
    /\ AtResult
    /\ precise_check(Window(Len(stencil)), stencil)
    /\ file_stem \notin FLAT_AMBIGUOUS_FILES
    /\ Continues(ParseHit)

\* the entries of the list s at the address a
At(s, a) == {i \in 1..Len(s) : s[i].address = a}

\* C14 (Per-hit deduplication by address keeps the largest): of the symbols
\* gathered for one precise hit, symbol-table symbols first, exactly one
\* entry survives for each address, and its size is the largest of the
\* gathered entries at that address.
DedupKeepsLargest ==
    HitParsed =>
        LET gathered == ParseHit.symbols
            kept     == HitSymbolList(gathered)
        IN  \A g \in 1..Len(gathered) :
                LET a == gathered[g].address
                IN  /\ Cardinality(At(kept, a)) = 1
                    /\ \A k \in At(kept, a) : kept[k].size >= gathered[g].size

\* exactly one entry survives for each address, and it is the first one
\* gathered at that address
DedupKeepsFirst ==
    HitParsed =>
        LET gathered == ParseHit.symbols
            kept     == HitSymbolList(gathered)
        IN  /\ \A k \in 1..Len(kept) : At(gathered, kept[k].address) # {}
            /\ \A g \in 1..Len(gathered) :
                  LET a == gathered[g].address
                      first == CHOOSE i \in At(gathered, a) :
                                  \A j \in At(gathered, a) : i <= j
                  IN  /\ Cardinality(At(kept, a)) = 1
                      /\ \A k \in At(kept, a) : kept[k] = gathered[first]

\* a hit of func, whose symbol table has small (size 4) before big (size 8)
\* at one address: small is kept and big is dropped
SmallerKept ==
    /\ HitParsed
    /\ file_stem = "func"
    /\ LET kept == HitSymbolList(ParseHit.symbols)
       IN  /\ \E k \in 1..Len(kept) : kept[k].name = "small" /\ kept[k].size = 4
           /\ \A k \in 1..Len(kept) : kept[k].name # "big"
    /\ \E g \in 1..Len(ParseHit.symbols) :
          /\ ParseHit.symbols[g].name = "big"
          /\ ParseHit.symbols[g].size = 8

---------------------------------------------------------------------------
(* A stencil longer than the blob                                          *)

\* C15 (Stencil longer than the blob): when the rough stencil of an object
\* has more words than the blob, naive_wordsearch returns an empty list
\* without arithmetic underflow and without out-of-bounds access, and the
\* object is classified NotFound.
LongerStencilNotFound ==
    /\ (Searchable /\ Len(made_rough_stencil) > Len(rom_words)) =>
          /\ ~rough.ovf
          /\ ~rough.fault
          /\ rough.results = <<>>
    /\ Len(rough_stencil) > Len(rom_words) => pc # "panic"
    /\ \A n \in Processed :
          (~Skipped(FileAt(n)) /\ Len(WordsOf(FileAt(n))) > Len(rom_words)) =>
              FileAt(n).stem \in NotFoundStems

\* the rough scan of a stencil longer than the blob has ended the run: the
\* subtraction underflows and the index that follows is out of bounds
LongerStencilPanics ==
    /\ pc = "panic"
    /\ Len(rough_stencil) > Len(rom_words)
    /\ naive_wordsearch(rom_words, rough_stencil).ovf
    /\ naive_wordsearch(rom_words, rough_stencil).fault
    /\ file_stem \notin Listed

\* whatever the build, no stencil longer than the blob is ever searched to
\* the end: no object with more words than the blob gets past the scan
LongerStencilNeverReturns ==
    /\ (Searchable /\ Len(made_rough_stencil) > Len(rom_words)) => Aborts(rough)
    /\ \A n \in Processed : Skipped(FileAt(n)) \/ Len(WordsOf(FileAt(n))) <= Len(rom_words)

=============================================================================
